---------------------------- MODULE Spec2Model ----------------------------
(***************************************************************************)
(* Literature aggregation tools of api/core/tools/provider/builtin:        *)
(* merge_and_deduplicate and PaperSearchAPI (literature.py), the paginated *)
(* Web of Science client (wos_search.py), the PubMed fetch retry loops,    *)
(* the Semantic Scholar bulk, batch and relevance clients, the pagination  *)
(* loops of the four paginated clients and the bearer-token cache of       *)
(* zhihuiya.py.                                                            *)
(***************************************************************************)
EXTENDS Integers, Sequences, FiniteSets, TLC

VARIABLES
    \* ---- merge_and_deduplicate(list_a, list_b) ----
    list_a,             \* first argument
    list_b,             \* second argument
    mpc,                \* "input" -> "merged" -> "remerged" -> "self"
    merged_dict,        \* the dict of line 100, in insertion order
    deduplicated_list,  \* the value returned at line 136
    remerged,           \* merge_and_deduplicate(deduplicated_list, [])
    self_merged,        \* <<merge(list_a, list_a), merge(list_a, [])>>
    \* ---- PaperSearchAPI.search ----
    semantic_result,        \* line 323
    wos_result,             \* line 326
    filtered,               \* the parameter of line 317
    spc,                    \* "merge" -> "doi_batch" -> "pmid_lookup" -> "pubmed" -> "finish" -> "returned"
    search_merged,          \* the list iterated at line 333
    result,                 \* line 329
    without_abstract_doi,   \* line 330
    without_abstract_pmid,  \* line 331
    filtered_result,        \* line 332
    pubmed_xml,             \* what efetch held for each PMID of line 390, <<>> when the fetch failed or was not made
    \* ---- WosSearchAPI.search (wos_search.py) ----
    wos_num_results,    \* the parameter num_results
    wos_total,          \* the total the source holds for the query
    wpc,                \* "start" -> "loop" -> "returned" | "raised"
    wos_limit,          \* limit, lines 105 and 116
    wos_page,           \* page, lines 106 and 117
    wos_rest_num,       \* rest_num, lines 113 and 123
    wos_calls,          \* the calls of query_once so far: [page, limit]
    wos_totals,         \* the total each call of query_once returned
    wos_events,         \* HTTP "request" and time "sleep" in the order they happen
    wos_query_type,     \* the parameter query_type
    wos_error,          \* the exception that left search, "" when none
    \* ---- PubMed fetch retry loops (literature.py) ----
    pm_variant,         \* "requests": pubmed_search_requests, "urllib": pubmed_search_urllib
    pm_pc,              \* "loop" -> "parsed" | "returned_empty" | "raised"
    pm_retry,           \* retry, lines 154 and 262
    pm_sleep_time,      \* self.sleep_time, line 147
    pm_requests,        \* HTTP requests issued by the call so far
    pm_statuses,        \* the HTTP status of each request so far
    pm_waits,           \* the arguments of time.sleep so far
    \* ---- SemanticBulkSearchAPI.query (semantic_bulk_search.py) ----
    sem_document_type,   \* the parameter document_type
    sem_num_results,     \* the parameter num_results
    sem_pc,              \* "start" -> "first" -> "loop" -> "returned" | "raised"
    sem_result,          \* result, lines 144, 147 and 154; the returned list once returned
    sem_rest,            \* rest_num_results, lines 148 and 155
    sem_token,           \* whether token is not None, lines 136 and 151
    sem_responses,       \* what each HTTP request was answered: [status, total] and the len(data) and token query_once made of it
    sem_events,          \* HTTP "request" and time "sleep" in the order they happen
    sem_error,           \* the exception that left query, "" when none
    \* ---- LiteratureSearchTool._invoke down to the two source calls (literature.py) ----
    inv_query,             \* tool_parameters.get("query"), line 437
    inv_document_type,     \* tool_parameters["document_type"], ABSENT when not given, line 448
    ipc,                   \* "start" -> "semantic" -> "wos" -> "raised"
    inv_requests,          \* HTTP requests issued to any provider so far
    inv_semantic_result,   \* semantic_result of line 323
    inv_error,             \* the exception that left _invoke, "" when none
    \* ---- SemanticScholarBatchAPI.query (semantic_scholar.py) ----
    batch_ids,               \* the parameter ids
    batch_filtered,          \* the parameter filtered
    batch_fields_abstract,   \* whether the parameter fields names abstract
    bpc,                     \* "call" -> "request" -> "returned" | "raised"
    batch_requests,          \* HTTP requests issued by the call so far
    batch_answered,          \* whether requests.post returned a response
    batch_response,          \* the JSON array of the response, line 41
    batch_result,            \* result, lines 42-52
    batch_error,             \* the exception that left query, "" when none
    \* ---- ZhiHuiYaProvider.get_bearer_token (zhihuiya.py) ----
    tok_environ,    \* os.environ: ZHIHUIYA_BEARER_TOKEN and ZHIHUIYA_BEARER_TOKEN_EXPIRE, <<>> when unset
    tok_now,        \* time.time()
    tok_pc,         \* "idle" -> "request" -> "idle": a call is waiting for requests.post at line 23
    tok_advances,   \* clock advances so far
    tok_calls,      \* calls of get_bearer_token so far
    tok_requests,   \* token requests issued by the call in progress or just finished
    tok_issued,     \* the time line 33 read when it stored the k-th token
    tok_found,      \* what the call in progress found in the cache and when it looked, lines 11 and 35
    tok_last,       \* how the last finished call ended
    \* ---- the pagination loops, followed without their history ----
    pg_loop,    \* "semantic_bulk", "wos", "patent" or "similar": whose loop it is
    pg_num,     \* the parameter num_results or num
    pg_pc,      \* "first" -> "loop" -> "returned" | "raised"
    pg_limit,   \* limit, the page size asked for
    pg_rest,    \* rest_num_results or rest_num
    pg_parity,  \* the number of requests made so far, modulo 2
    \* ---- SemanticRelevanceSearchTool.query (semantic_relevance_search.py) ----
    rel_requested,          \* the parameter num_results as the caller passed it
    rel_total,              \* the matching records the source holds
    rel_without_abstract,   \* the positions of the source records whose abstract is null
    rel_pc,                 \* "first" -> "loop" -> "returned"
    rel_num_results,        \* the local num_results, lines 40 and 53
    rel_i,                  \* i of the for loop, line 51
    rel_result,             \* result, lines 50 and 56; the list returned once returned, as source positions
    rel_calls,              \* the calls of query_once so far: [offset, limit]
    rel_failed              \* whether some request was answered with a status other than 200

mergeVars == <<list_a, list_b, mpc, merged_dict, deduplicated_list, remerged, self_merged>>

searchVars == <<semantic_result, wos_result, filtered, spc, search_merged, result,
                without_abstract_doi, without_abstract_pmid, filtered_result, pubmed_xml>>

wosVars == <<wos_num_results, wos_total, wpc, wos_limit, wos_page, wos_rest_num,
             wos_calls, wos_totals, wos_events, wos_query_type, wos_error>>

pubmedVars == <<pm_variant, pm_pc, pm_retry, pm_sleep_time, pm_requests, pm_statuses, pm_waits>>

semVars == <<sem_document_type, sem_num_results, sem_pc, sem_result, sem_rest, sem_token, sem_responses, sem_events, sem_error>>

invokeVars == <<inv_query, inv_document_type, ipc, inv_requests, inv_semantic_result, inv_error>>

batchVars == <<batch_ids, batch_filtered, batch_fields_abstract, bpc, batch_requests, batch_answered, batch_response, batch_result, batch_error>>

tokenVars == <<tok_environ, tok_now, tok_pc, tok_advances, tok_calls, tok_requests, tok_issued, tok_found, tok_last>>

pagingVars == <<pg_loop, pg_num, pg_pc, pg_limit, pg_rest, pg_parity>>

relevanceVars == <<rel_requested, rel_total, rel_without_abstract, rel_pc, rel_num_results, rel_i, rel_result, rel_calls, rel_failed>>

vars == <<mergeVars, searchVars, wosVars, pubmedVars, semVars, invokeVars, batchVars, tokenVars, pagingVars, relevanceVars>>

\* the variables of merge_and_deduplicate while no merge is checked
MergeIdle ==
    /\ list_a = <<>>
    /\ list_b = <<>>
    /\ mpc = "idle"
    /\ merged_dict = <<>>
    /\ deduplicated_list = <<>>
    /\ remerged = <<>>
    /\ self_merged = <<>>

\* the variables of PaperSearchAPI.search while no search runs
SearchIdle ==
    /\ semantic_result = <<>>
    /\ wos_result = <<>>
    /\ filtered = TRUE
    /\ spc = "idle"
    /\ search_merged = <<>>
    /\ result = <<>>
    /\ without_abstract_doi = <<>>
    /\ without_abstract_pmid = <<>>
    /\ filtered_result = <<>>
    /\ pubmed_xml = <<>>

\* the variables of WosSearchAPI.search while no search runs
WosIdle ==
    /\ wos_num_results = 0
    /\ wos_total = 0
    /\ wpc = "idle"
    /\ wos_limit = 0
    /\ wos_page = 0
    /\ wos_rest_num = 0
    /\ wos_calls = <<>>
    /\ wos_totals = <<>>
    /\ wos_events = <<>>
    /\ wos_query_type = "TS"
    /\ wos_error = ""

\* the variables of the PubMed fetch while no fetch runs
PubmedIdle ==
    /\ pm_variant = "requests"
    /\ pm_pc = "idle"
    /\ pm_retry = 0
    /\ pm_sleep_time = 1
    /\ pm_requests = 0
    /\ pm_statuses = <<>>
    /\ pm_waits = <<>>

-----------------------------------------------------------------------------
(* Python values of a record's fields.  A record (dict) is a function from  *)
(* Fields to values; ABSENT marks a key the dict does not hold.             *)

Fields == {"doi", "pmid", "title", "abstract", "year", "uid", "url"}

ABSENT == "<absent>"
NONE == "<None>"

\* what an operator yields when the function it models raises
RAISE == "<raise>"

\* k in entry
Has(entry, k) == entry[k] # ABSENT

\* entry.get(k)
Get(entry, k) == IF Has(entry, k) THEN entry[k] ELSE NONE

\* bool(v) of a str or None
Truthy(v) == v \notin {ABSENT, NONE, ""}

\* str.lower() on the strings of the model
Lower(s) ==
    CASE s = "A" -> "a"
      [] s = "P" -> "p"
      [] s = "T" -> "t"
      [] OTHER -> s

\* the variables of SemanticBulkSearchAPI.query while no query runs
SemIdle ==
    /\ sem_document_type = ""
    /\ sem_num_results = 0
    /\ sem_pc = "idle"
    /\ sem_result = <<>>
    /\ sem_rest = 0
    /\ sem_token = FALSE
    /\ sem_responses = <<>>
    /\ sem_events = <<>>
    /\ sem_error = ""

\* the variables of LiteratureSearchTool._invoke while no invocation runs
InvokeIdle ==
    /\ inv_query = ""
    /\ inv_document_type = ""
    /\ ipc = "idle"
    /\ inv_requests = 0
    /\ inv_semantic_result = <<>>
    /\ inv_error = ""

\* the variables of SemanticScholarBatchAPI.query while no query runs
BatchIdle ==
    /\ batch_ids = <<>>
    /\ batch_filtered = TRUE
    /\ batch_fields_abstract = TRUE
    /\ bpc = "idle"
    /\ batch_requests = 0
    /\ batch_answered = FALSE
    /\ batch_response = <<>>
    /\ batch_result = <<>>
    /\ batch_error = ""

\* the variables of the bearer-token cache while no call is checked
TokenIdle ==
    /\ tok_environ = [token |-> <<>>, expire |-> <<>>]
    /\ tok_now = 0
    /\ tok_pc = "off"
    /\ tok_advances = 0
    /\ tok_calls = 0
    /\ tok_requests = 0
    /\ tok_issued = <<>>
    /\ tok_found = [cache |-> "none", at |-> 0]
    /\ tok_last = [outcome |-> "none", token |-> 0, found |-> "none", at |-> 0, requests |-> 0]

\* the variables of the pagination loops while none is followed
PagingIdle ==
    /\ pg_loop = "semantic_bulk"
    /\ pg_num = 0
    /\ pg_pc = "idle"
    /\ pg_limit = 0
    /\ pg_rest = 0
    /\ pg_parity = 0

\* the variables of SemanticRelevanceSearchTool.query while no query runs
RelevanceIdle ==
    /\ rel_requested = 0
    /\ rel_total = 0
    /\ rel_without_abstract = {}
    /\ rel_pc = "idle"
    /\ rel_num_results = 0
    /\ rel_i = 0
    /\ rel_result = <<>>
    /\ rel_calls = <<>>
    /\ rel_failed = FALSE

Min(S) == CHOOSE x \in S : \A y \in S : x <= y

MinOf(a, b) == IF a <= b THEN a ELSE b

Rec(doi, pmid, title, abstract, year, uid) ==
    [doi |-> doi, pmid |-> pmid, title |-> title, abstract |-> abstract,
     year |-> year, uid |-> uid, url |-> ABSENT]

-----------------------------------------------------------------------------
(* merge_and_deduplicate, literature.py lines 95-136                        *)

NoKey == "<continue>"

\* lines 108-116 with doi.lower() replaced by doi
KeyNoLower(entry) ==
    IF Truthy(Get(entry, "doi")) THEN Get(entry, "doi")
    ELSE IF Truthy(Get(entry, "pmid")) THEN Lower(Get(entry, "pmid"))
    ELSE IF Truthy(Get(entry, "title")) THEN Lower(Get(entry, "title"))
    ELSE NoKey

\* lines 108-116 with pmid.lower() replaced by pmid
KeyPmidNoLower(entry) ==
    IF Truthy(Get(entry, "doi")) THEN Lower(Get(entry, "doi"))
    ELSE IF Truthy(Get(entry, "pmid")) THEN Get(entry, "pmid")
    ELSE IF Truthy(Get(entry, "title")) THEN Lower(Get(entry, "title"))
    ELSE NoKey

\* lines 108-116 with the pmid test before the doi test
KeyPmidFirst(entry) ==
    IF Truthy(Get(entry, "pmid")) THEN Lower(Get(entry, "pmid"))
    ELSE IF Truthy(Get(entry, "doi")) THEN Lower(Get(entry, "doi"))
    ELSE IF Truthy(Get(entry, "title")) THEN Lower(Get(entry, "title"))
    ELSE NoKey

\* lines 108-116 without the final else: continue; a record without DOI, PMID
\* and title is filed under the empty key
KeyNoContinue(entry) ==
    IF Truthy(Get(entry, "doi")) THEN Lower(Get(entry, "doi"))
    ELSE IF Truthy(Get(entry, "pmid")) THEN Lower(Get(entry, "pmid"))
    ELSE IF Truthy(Get(entry, "title")) THEN Lower(Get(entry, "title"))
    ELSE ""

\* lines 103-116: the deduplication key, or NoKey where the loop continues
Key(entry) ==
    IF Truthy(Get(entry, "doi")) THEN Lower(Get(entry, "doi"))
    ELSE IF Truthy(Get(entry, "pmid")) THEN Lower(Get(entry, "pmid"))
    ELSE IF Truthy(Get(entry, "title")) THEN Lower(Get(entry, "title"))
    ELSE NoKey

\* a lookup that only sees the entry inserted last
KeyIndexLastOnly(merged, key) ==
    IF Len(merged) > 0 /\ merged[Len(merged)].key = key THEN Len(merged) ELSE 0

\* line 118: key in merged_dict; the position of the key, 0 when it is not there
KeyIndex(merged, key) ==
    IF \E j \in 1..Len(merged) : merged[j].key = key
    THEN CHOOSE j \in 1..Len(merged) : merged[j].key = key
    ELSE 0

\* lines 120-122 without the "not merged_dict[key][k]" test
UpdateEntryIfAbsent(old, entry) ==
    [k \in Fields |->
        IF Has(entry, k) /\ ~Has(old, k) THEN entry[k] ELSE old[k]]

\* lines 120-122 with the condition dropped: the incoming value always wins
UpdateEntryAlways(old, entry) ==
    [k \in Fields |-> IF Has(entry, k) THEN entry[k] ELSE old[k]]

\* lines 120-122: for k, v in entry.items(): fill absent or falsy fields
UpdateEntry(old, entry) ==
    [k \in Fields |->
        IF Has(entry, k) /\ (~Has(old, k) \/ ~Truthy(old[k]))
        THEN entry[k] ELSE old[k]]

\* lines 125-127: entry.copy() with 'abstract' always set
NewEntry(entry) == [entry EXCEPT !["abstract"] = Get(entry, "abstract")]

\* a new key put in front of the older ones
InsertFront(merged, slot) == <<slot>> \o merged

\* line 128: a new key goes last in the dict's insertion order
Insert(merged, slot) == Append(merged, slot)

\* lines 102-128, one iteration for combined_list[i]; src records the
\* positions of combined_list that went into the slot
MergeEntry(merged, entry, i) ==
    LET key == Key(entry) IN
    IF key = NoKey THEN merged
    ELSE LET j == KeyIndex(merged, key) IN
         IF j # 0
         THEN [merged EXCEPT ![j] = [key |-> key,
                                     val |-> UpdateEntry(merged[j].val, entry),
                                     src |-> merged[j].src \cup {i}]]
         ELSE Insert(merged, [key |-> key, val |-> NewEntry(entry), src |-> {i}])

RECURSIVE MergeLoop(_, _, _)
\* lines 100-128: the loop over combined_list from position i on
MergeLoop(combined_list, i, merged) ==
    IF i > Len(combined_list) THEN merged
    ELSE MergeLoop(combined_list, i + 1, MergeEntry(merged, combined_list[i], i))

\* lines 97-128
MergedDict(a, b) == MergeLoop(a \o b, 1, <<>>)

\* line 131: list(merged_dict.values())
Values(merged) == [j \in 1..Len(merged) |-> merged[j].val]

\* lines 95-136
merge_and_deduplicate(a, b) == Values(MergedDict(a, b))

-----------------------------------------------------------------------------
(* Inputs of the merge                                                      *)

MaxRecords == 3     \* records in list_a and list_b together
SrcLen == 3         \* records per source in the two-source scenario

\* records that differ in the key-bearing fields
KeyRecs ==
    {Rec(d, p, "t", ABSENT, ABSENT, ABSENT) : d \in {"a", "A", "b"}, p \in {"", "p"}}
    \cup {Rec("", "p", "t", ABSENT, ABSENT, ABSENT),
          Rec("", "P", "u", ABSENT, ABSENT, ABSENT),
          Rec("", "a", "u", ABSENT, ABSENT, ABSENT),
          Rec(ABSENT, NONE, "u", ABSENT, ABSENT, ABSENT)}
    \cup {Rec("", "", t, ABSENT, ABSENT, ABSENT) : t \in {"", "t", "T"}}

\* records of one DOI (in two spellings) that differ in the merged fields
FieldRecs ==
    {Rec(d, "", "t", ab, ABSENT, ABSENT) :
        d \in {"a", "A"}, ab \in {ABSENT, NONE, "", "s", "r"}}

\* records as semantic_bulk_search (lines 51-65) and wos_search
\* (wos_search.py lines 50-62) shape them
SemRecs == {Rec(d, "", "t", "s", "y", ABSENT) : d \in {"a", "b", "c", "d"}}
WosRecs == {Rec(d, "p", "T", ABSENT, ABSENT, "u") : d \in {"A", "b", "c", "d"}}

SeqsUpTo(S, n) == UNION {[1..m -> S] : m \in 0..n}

InitMerge ==
    /\ \/ \E U \in {KeyRecs, FieldRecs} :
            /\ list_a \in SeqsUpTo(U, MaxRecords)
            /\ list_b \in SeqsUpTo(U, MaxRecords - Len(list_a))
       \/ /\ list_a \in [1..SrcLen -> SemRecs]
          /\ list_b \in [1..SrcLen -> WosRecs]
    /\ mpc = "input"
    /\ merged_dict = <<>>
    /\ deduplicated_list = <<>>
    /\ remerged = <<>>
    /\ self_merged = <<>>
    /\ SearchIdle /\ WosIdle /\ PubmedIdle /\ SemIdle /\ InvokeIdle /\ BatchIdle /\ TokenIdle /\ PagingIdle /\ RelevanceIdle

\* merge_and_deduplicate(list_a, list_b)
Merge ==
    /\ mpc = "input"
    /\ merged_dict' = MergedDict(list_a, list_b)
    /\ deduplicated_list' = Values(merged_dict')
    /\ mpc' = "merged"
    /\ UNCHANGED <<list_a, list_b, remerged, self_merged>>
    /\ UNCHANGED <<searchVars, wosVars, pubmedVars, semVars, invokeVars, batchVars, tokenVars, pagingVars, relevanceVars>>

\* merge_and_deduplicate(deduplicated_list, [])
ReMerge ==
    /\ mpc = "merged"
    /\ remerged' = merge_and_deduplicate(deduplicated_list, <<>>)
    /\ mpc' = "remerged"
    /\ UNCHANGED <<list_a, list_b, merged_dict, deduplicated_list, self_merged>>
    /\ UNCHANGED <<searchVars, wosVars, pubmedVars, semVars, invokeVars, batchVars, tokenVars, pagingVars, relevanceVars>>

\* merge_and_deduplicate(list_a, list_a) and merge_and_deduplicate(list_a, [])
SelfMerge ==
    /\ mpc = "remerged"
    /\ self_merged' = <<merge_and_deduplicate(list_a, list_a),
                        merge_and_deduplicate(list_a, <<>>)>>
    /\ mpc' = "self"
    /\ UNCHANGED <<list_a, list_b, merged_dict, deduplicated_list, remerged>>
    /\ UNCHANGED <<searchVars, wosVars, pubmedVars, semVars, invokeVars, batchVars, tokenVars, pagingVars, relevanceVars>>

NextMerge == Merge \/ ReMerge \/ SelfMerge

SpecMerge == InitMerge /\ [][NextMerge]_vars

-----------------------------------------------------------------------------
(* SemanticScholarBatchAPI.query, semantic_scholar.py lines 20-52           *)

\* one element of the JSON array the batch endpoint answers: null, or a paper
NullPaper == [found |-> FALSE, title |-> NONE, abstract |-> NONE]
Paper(title, abstract) == [found |-> TRUE, title |-> title, abstract |-> abstract]

\* lines 45-50: what one pair (pid, paper) of the zip adds to result
BatchStep(pid, paper, filt) ==
    IF ~paper.found THEN <<>>
    ELSE IF filt /\ paper.abstract = NONE THEN <<>>
    ELSE <<[id |-> pid, title |-> paper.title, abstract |-> paper.abstract]>>

RECURSIVE BatchZip(_, _, _, _, _)
\* lines 44-50: for pid, paper in zip(ids, response), the positions lo..hi
\* (halved, so that a batch of max_query_size identifiers nests shallowly)
BatchZip(ids, response, filt, lo, hi) ==
    IF lo > hi THEN <<>>
    ELSE IF lo = hi THEN BatchStep(ids[lo], response[lo], filt)
    ELSE LET mid == (lo + hi) \div 2
         IN BatchZip(ids, response, filt, lo, mid) \o BatchZip(ids, response, filt, mid + 1, hi)

\* lines 41-52 for a request that is answered
BatchQuery(ids, response, filt) ==
    BatchZip(ids, response, filt, 1, MinOf(Len(ids), Len(response)))

-----------------------------------------------------------------------------
(* PaperSearchAPI.pubmed_search_requests, literature.py lines 256-297       *)

RECURSIVE JoinedChars(_)
\* line 258: ",".join(pmids), as its sequence of characters (the PMIDs of the
\* model are one character long)
JoinedChars(pmids) ==
    IF Len(pmids) = 0 THEN <<>>
    ELSE IF Len(pmids) = 1 THEN <<pmids[1]>>
    ELSE <<pmids[1], ",">> \o JoinedChars(Tail(pmids))

\* lines 284-297: zip(pmid_list, titles, abstracts), pmid_list being the
\* joined string
PubmedZip(pmid_chars, titles, abstracts) ==
    [i \in 1..MinOf(Len(pmid_chars), MinOf(Len(titles), Len(abstracts))) |->
        [pmid |-> pmid_chars[i], title |-> titles[i], abstract |-> abstracts[i]]]

\* what efetch holds for one requested PMID
ArticleKinds == {"full", "no_abstract", "empty_abstract", "missing"}

RECURSIVE TitlesOf(_, _)
\* line 286: the ArticleTitle texts of the answer, in document order
TitlesOf(pmids, xml) ==
    IF Len(pmids) = 0 THEN <<>>
    ELSE (IF xml[1] = "missing" THEN <<>> ELSE <<"title of " \o pmids[1]>>)
         \o TitlesOf(Tail(pmids), Tail(xml))

RECURSIVE AbstractsOf(_, _)
\* line 285: the AbstractText texts of the answer, in document order
AbstractsOf(pmids, xml) ==
    IF Len(pmids) = 0 THEN <<>>
    ELSE (CASE xml[1] = "full" -> <<"abstract of " \o pmids[1]>>
            [] xml[1] = "empty_abstract" -> <<"">>
            [] OTHER -> <<>>)
         \o AbstractsOf(Tail(pmids), Tail(xml))

\* lines 256-297 for a request that ends: ok = FALSE is the except branch
\* of lines 279-282
pubmed_search_requests(pmids, ok, xml) ==
    IF ~ok THEN <<>>
    ELSE PubmedZip(JoinedChars(pmids), TitlesOf(pmids, xml), AbstractsOf(pmids, xml))

-----------------------------------------------------------------------------
(* PaperSearchAPI.search, literature.py lines 310-422, from the two source  *)
(* lists on                                                                 *)

MaxSrc == 2     \* records per source list

\* [{}] of semantic_bulk_search.py line 139 as lines 51-65 shape it
Placeholder == Rec("", "", ABSENT, ABSENT, "", ABSENT)

SearchSemRecs ==
    {Placeholder,
     Rec("a", "", "t", "s", "y", ABSENT),
     Rec("", "", "v", "s", "y", ABSENT),
     Rec("b", "p", "t", NONE, "y", ABSENT),
     Rec("", "p", "t", NONE, "y", ABSENT)}

SearchWosRecs ==
    {Rec("A", "", "T", ABSENT, ABSENT, "u"),
     Rec("b", "p", "T", ABSENT, ABSENT, "u"),
     Rec("", "p", "T", ABSENT, ABSENT, "u"),
     Rec("", "", "w", ABSENT, ABSENT, "u")}

\* the answers of the batch endpoint for one identifier
BatchPapers == {NullPaper, Paper("n", "x"), Paper("n", ""), Paper("n", NONE)}

\* the results of get_pmid_by_doi (lines 299-308): nothing found, the except
\* branch, a PMID
PmidAnswers == {NONE, "", "q"}

RECURSIVE SelectRecs(_, _)
SelectRecs(l, keep) ==
    IF Len(l) = 0 THEN <<>>
    ELSE (IF keep[1] THEN <<l[1]>> ELSE <<>>) \o SelectRecs(Tail(l), Tail(keep))

\* the state at line 329, for any two lists bound at lines 323 and 326
InitSearch ==
    /\ MergeIdle /\ WosIdle /\ PubmedIdle /\ SemIdle /\ InvokeIdle /\ BatchIdle /\ TokenIdle /\ PagingIdle /\ RelevanceIdle
    /\ semantic_result \in SeqsUpTo(SearchSemRecs, MaxSrc)
    /\ wos_result \in SeqsUpTo(SearchWosRecs, MaxSrc)
    /\ filtered \in BOOLEAN
    /\ spc = "merge"
    /\ search_merged = <<>>
    /\ result = <<>>
    /\ without_abstract_doi = <<>>
    /\ without_abstract_pmid = <<>>
    /\ filtered_result = <<>>
    /\ pubmed_xml = <<>>

\* lines 329-347: merge the two lists and partition the merged records
SearchMerge ==
    /\ spc = "merge"
    /\ LET m == merge_and_deduplicate(semantic_result, wos_result)
           n == Len(m)
       IN /\ search_merged' = m
          /\ result' = SelectRecs(m, [i \in 1..n |-> Truthy(m[i]["abstract"])])
          /\ without_abstract_doi' =
                SelectRecs(m, [i \in 1..n |-> ~Truthy(m[i]["abstract"]) /\ Truthy(m[i]["doi"])])
          /\ without_abstract_pmid' =
                SelectRecs(m, [i \in 1..n |-> /\ ~Truthy(m[i]["abstract"])
                                              /\ ~Truthy(m[i]["doi"])
                                              /\ Truthy(m[i]["pmid"])])
          /\ filtered_result' =
                SelectRecs(m, [i \in 1..n |-> /\ ~Truthy(m[i]["abstract"])
                                              /\ ~Truthy(m[i]["doi"])
                                              /\ ~Truthy(m[i]["pmid"])])
    /\ spc' = "doi_batch"
    /\ UNCHANGED <<semantic_result, wos_result, filtered, pubmed_xml>>
    /\ UNCHANGED <<mergeVars, wosVars, pubmedVars, semVars, invokeVars, batchVars, tokenVars, pagingVars, relevanceVars>>

\* line 364: search_doi_str.index(id)
IndexOf(l, x) == Min({i \in 1..Len(l) : l[i] = x})

\* lines 349-372: the batch lookup of the DOIs that lack an abstract
SearchDoiBatch ==
    /\ spc = "doi_batch"
    /\ IF without_abstract_doi = <<>>
       THEN UNCHANGED <<result, without_abstract_doi>>
       ELSE \E response \in [1..Len(without_abstract_doi) -> BatchPapers] :
            LET n == Len(without_abstract_doi)
                search_doi_str == [i \in 1..n |-> "DOI:" \o without_abstract_doi[i]["doi"]]
                doi_search_results == BatchQuery(search_doi_str, response, TRUE)
                hits == [k \in 1..Len(doi_search_results) |->
                            LET index == IndexOf(search_doi_str, doi_search_results[k].id) IN
                            [without_abstract_doi[index] EXCEPT
                                !["title"] = doi_search_results[k].title,
                                !["abstract"] = doi_search_results[k].abstract]]
                remove_index == {IndexOf(search_doi_str, doi_search_results[k].id) :
                                    k \in 1..Len(doi_search_results)}
            IN /\ result' = result \o hits
               /\ without_abstract_doi' =
                     SelectRecs(without_abstract_doi, [i \in 1..n |-> i \notin remove_index])
    /\ spc' = "pmid_lookup"
    /\ UNCHANGED <<semantic_result, wos_result, filtered, search_merged,
                   without_abstract_pmid, filtered_result, pubmed_xml>>
    /\ UNCHANGED <<mergeVars, wosVars, pubmedVars, semVars, invokeVars, batchVars, tokenVars, pagingVars, relevanceVars>>

\* lines 374-387: get_pmid_by_doi for every record the batch lookup missed
SearchPmidLookup ==
    /\ spc = "pmid_lookup"
    /\ \E pmid \in [1..Len(without_abstract_doi) -> PmidAnswers] :
        LET n == Len(without_abstract_doi)
            withPmid == [i \in 1..n |-> [without_abstract_doi[i] EXCEPT !["pmid"] = pmid[i]]]
        IN /\ without_abstract_pmid' =
                 without_abstract_pmid \o SelectRecs(withPmid, [i \in 1..n |-> Truthy(pmid[i])])
           /\ filtered_result' =
                 filtered_result
                 \o SelectRecs(without_abstract_doi, [i \in 1..n |-> ~Truthy(pmid[i])])
    /\ spc' = "pubmed"
    /\ UNCHANGED <<semantic_result, wos_result, filtered, search_merged, result,
                   without_abstract_doi, pubmed_xml>>
    /\ UNCHANGED <<mergeVars, wosVars, pubmedVars, semVars, invokeVars, batchVars, tokenVars, pagingVars, relevanceVars>>

\* lines 388-401: the PubMed fetch of the PMIDs and the zip over its answer
SearchPubmed ==
    /\ spc = "pubmed"
    /\ IF without_abstract_pmid = <<>>
       THEN UNCHANGED <<result, filtered_result, pubmed_xml>>
       ELSE \E answer \in {<<>>} \cup [1..Len(without_abstract_pmid) -> ArticleKinds] :
            LET ok == answer # <<>>
                xml == answer
                pmids == [i \in 1..Len(without_abstract_pmid) |-> without_abstract_pmid[i]["pmid"]]
                pubmed_result == pubmed_search_requests(pmids, ok, xml)
                n == MinOf(Len(without_abstract_pmid), Len(pubmed_result))
                zipped == SubSeq(without_abstract_pmid, 1, n)
                filled == [i \in 1..n |->
                              [zipped[i] EXCEPT !["title"] = pubmed_result[i].title,
                                                !["abstract"] = pubmed_result[i].abstract]]
                hit == [i \in 1..n |-> Truthy(pubmed_result[i].abstract)]
            IN /\ pubmed_xml' = answer
               /\ IF pubmed_result = <<>>
                  THEN /\ filtered_result' = filtered_result \o without_abstract_pmid
                       /\ UNCHANGED result
                  ELSE /\ result' = result \o SelectRecs(filled, hit)
                       /\ filtered_result' =
                             filtered_result \o SelectRecs(zipped, [i \in 1..n |-> ~hit[i]])
    /\ spc' = "finish"
    /\ UNCHANGED <<semantic_result, wos_result, filtered, search_merged,
                   without_abstract_doi, without_abstract_pmid>>
    /\ UNCHANGED <<mergeVars, wosVars, pubmedVars, semVars, invokeVars, batchVars, tokenVars, pagingVars, relevanceVars>>

\* line 404 with the PMID preferred
ResultUrlPmidFirst(r) ==
    IF Truthy(r["pmid"]) THEN "https://pubmed.ncbi.nlm.nih.gov/" \o r["pmid"]
    ELSE "https://doi.org/" \o r["doi"]

\* line 404
ResultUrl(r) ==
    IF Truthy(r["doi"]) THEN "https://doi.org/" \o r["doi"]
    ELSE "https://pubmed.ncbi.nlm.nih.gov/" \o r["pmid"]

\* lines 408-417
LeftoverNormalized(r) ==
    [r EXCEPT !["url"] = IF Truthy(r["doi"]) THEN "https://doi.org/" \o r["doi"]
                         ELSE IF Truthy(r["pmid"]) THEN "https://pubmed.ncbi.nlm.nih.gov/" \o r["pmid"]
                         ELSE "",
              !["title"] = IF Truthy(Get(r, "title")) THEN r["title"] ELSE "",
              !["abstract"] = IF Truthy(Get(r, "abstract")) THEN r["abstract"] ELSE ""]

\* lines 403-422: the urls, the leftovers when filtered is off, the return
SearchFinish ==
    /\ spc = "finish"
    /\ LET withUrl == [i \in 1..Len(result) |-> [result[i] EXCEPT !["url"] = ResultUrl(result[i])]]
           leftovers == [i \in 1..Len(filtered_result) |-> LeftoverNormalized(filtered_result[i])]
       IN IF ~filtered
          THEN /\ filtered_result' = leftovers
               /\ result' = withUrl \o leftovers
          ELSE /\ result' = withUrl
               /\ UNCHANGED filtered_result
    /\ spc' = "returned"
    /\ UNCHANGED <<semantic_result, wos_result, filtered, search_merged,
                   without_abstract_doi, without_abstract_pmid, pubmed_xml>>
    /\ UNCHANGED <<mergeVars, wosVars, pubmedVars, semVars, invokeVars, batchVars, tokenVars, pagingVars, relevanceVars>>

NextSearch == SearchMerge \/ SearchDoiBatch \/ SearchPmidLookup \/ SearchPubmed \/ SearchFinish

SpecSearch == InitSearch /\ [][NextSearch]_vars

-----------------------------------------------------------------------------
(* WosSearchAPI.search, wos_search.py lines 93-126                          *)

PageLimit == 50         \* self.limit, wos_search.py line 25
MaxWosNum == 260        \* largest num_results tried
MaxWosTotal == 240      \* largest total of the source tried

\* line 113 with the source's total left out
RestAfterFirstNoTotal(num_results, total, limit) == num_results - limit

\* line 113: rest_num = min(num_results, total) - limit
RestAfterFirst(num_results, total, limit) == MinOf(num_results, total) - limit

\* what one HTTP request of query_once can end in: an answer with the
\* source's total, an answer with total 0, raise_for_status raising
WosOutcomes == {"total", "zero", "error"}

\* the query types tried: two supported ones, an unsupported one
QueryTypes == {"TS", "PMID", "XX"}

\* lines 27-35: the query string, RAISE for the failing assert
get_query(query_type) ==
    IF query_type \in {"TS", "TI", "AU", "DO", "IS", "PMID"}
    THEN query_type \o "=q"
    ELSE RAISE

InitWos ==
    /\ MergeIdle /\ SearchIdle /\ PubmedIdle /\ SemIdle /\ InvokeIdle /\ BatchIdle /\ TokenIdle /\ PagingIdle /\ RelevanceIdle
    /\ wos_num_results \in 0..MaxWosNum
    /\ wos_total \in 0..MaxWosTotal
    /\ wpc = "start"
    /\ wos_limit = 0
    /\ wos_page = 0
    /\ wos_rest_num = 0
    /\ wos_calls = <<>>
    /\ wos_totals = <<>>
    /\ wos_events = <<>>
    /\ wos_query_type \in QueryTypes
    /\ wos_error = ""

\* line 103: get_query raises for an unsupported query type
WosGetQuery ==
    /\ wpc = "start"
    /\ get_query(wos_query_type) = RAISE
    /\ wpc' = "raised"
    /\ wos_error' = "AssertionError"
    /\ UNCHANGED <<wos_num_results, wos_total, wos_limit, wos_page, wos_rest_num,
                   wos_calls, wos_totals, wos_events, wos_query_type>>
    /\ UNCHANGED <<mergeVars, searchVars, pubmedVars, semVars, invokeVars, batchVars, tokenVars, pagingVars, relevanceVars>>

\* lines 103-113: the first query_once; lines 78-79 answer (0, []) without a
\* request when limit <= 0
WosFirstQuery ==
    /\ wpc = "start"
    /\ get_query(wos_query_type) # RAISE
    /\ LET limit == MinOf(wos_num_results, PageLimit) IN
       /\ wos_limit' = limit
       /\ wos_page' = 1
       /\ IF limit <= 0
          THEN /\ wpc' = "returned"
               /\ wos_calls' = Append(wos_calls, [page |-> 1, limit |-> limit])
               /\ wos_totals' = Append(wos_totals, 0)
               /\ UNCHANGED <<wos_events, wos_rest_num, wos_error>>
          ELSE \E outcome \in WosOutcomes :
               /\ wos_calls' = Append(wos_calls, [page |-> 1, limit |-> limit])
               /\ wos_events' = Append(wos_events, "request")
               /\ CASE outcome = "error" ->
                        /\ wpc' = "raised"
                        /\ wos_error' = "HTTPError"
                        /\ UNCHANGED <<wos_totals, wos_rest_num>>
                    [] outcome = "zero" \/ (outcome = "total" /\ wos_total = 0) ->
                        /\ wpc' = "returned"
                        /\ wos_totals' = Append(wos_totals, 0)
                        /\ UNCHANGED <<wos_rest_num, wos_error>>
                    [] OTHER ->
                        /\ wpc' = "loop"
                        /\ wos_totals' = Append(wos_totals, wos_total)
                        /\ wos_rest_num' = RestAfterFirst(wos_num_results, wos_total, limit)
                        /\ UNCHANGED wos_error
    /\ UNCHANGED <<wos_num_results, wos_total, wos_query_type>>
    /\ UNCHANGED <<mergeVars, searchVars, pubmedVars, semVars, invokeVars, batchVars, tokenVars, pagingVars, relevanceVars>>

\* lines 115-124: one iteration of the while loop
WosLoopQuery ==
    /\ wpc = "loop"
    /\ wos_rest_num > 0
    /\ LET limit == MinOf(wos_rest_num, PageLimit) IN
       \E outcome \in WosOutcomes :
       /\ wos_limit' = limit
       /\ wos_page' = wos_page + 1
       /\ wos_calls' = Append(wos_calls, [page |-> wos_page + 1, limit |-> limit])
       /\ CASE outcome = "error" ->
                /\ wpc' = "raised"
                /\ wos_error' = "HTTPError"
                /\ wos_events' = Append(wos_events, "request")
                /\ UNCHANGED <<wos_totals, wos_rest_num>>
            [] outcome = "zero" ->
                /\ wpc' = "returned"
                /\ wos_events' = Append(wos_events, "request")
                /\ wos_totals' = Append(wos_totals, 0)
                /\ UNCHANGED <<wos_rest_num, wos_error>>
            [] OTHER ->
                /\ wpc' = "loop"
                /\ wos_events' = wos_events \o <<"request", "sleep">>
                /\ wos_totals' = Append(wos_totals, wos_total)
                /\ wos_rest_num' = wos_rest_num - limit
                /\ UNCHANGED wos_error
    /\ UNCHANGED <<wos_num_results, wos_total, wos_query_type>>
    /\ UNCHANGED <<mergeVars, searchVars, pubmedVars, semVars, invokeVars, batchVars, tokenVars, pagingVars, relevanceVars>>

\* lines 115 and 126: the loop ends and the result is returned
WosReturn ==
    /\ wpc = "loop"
    /\ wos_rest_num <= 0
    /\ wpc' = "returned"
    /\ UNCHANGED <<wos_num_results, wos_total, wos_limit, wos_page, wos_rest_num,
                   wos_calls, wos_totals, wos_events, wos_query_type, wos_error>>
    /\ UNCHANGED <<mergeVars, searchVars, pubmedVars, semVars, invokeVars, batchVars, tokenVars, pagingVars, relevanceVars>>

NextWos == WosGetQuery \/ WosFirstQuery \/ WosLoopQuery \/ WosReturn

SpecWos == InitWos /\ [][NextWos]_vars

-----------------------------------------------------------------------------
(* The retry loops of the PubMed fetch, literature.py lines 152-171 and     *)
(* 256-282                                                                  *)

max_retry == 5              \* literature.py line 146
MaxPubmedRequests == 8      \* requests after which a call is followed no further

\* the HTTP status of one answer of efetch
PubmedStatuses == {200, 204, 429, 500}

InitPubmed ==
    /\ MergeIdle /\ SearchIdle /\ WosIdle /\ SemIdle /\ InvokeIdle /\ BatchIdle /\ TokenIdle /\ PagingIdle /\ RelevanceIdle
    /\ pm_variant \in {"requests", "urllib"}
    /\ pm_pc = "loop"
    /\ pm_retry = 0
    /\ pm_sleep_time = 1
    /\ pm_requests = 0
    /\ pm_statuses = <<>>
    /\ pm_waits = <<>>

\* lines 263-282: one pass of the while True loop of pubmed_search_requests
PubmedRequestsAttempt ==
    /\ pm_variant = "requests"
    /\ pm_pc = "loop"
    /\ pm_requests < MaxPubmedRequests
    /\ \E status \in PubmedStatuses :
        /\ pm_requests' = pm_requests + 1
        /\ pm_statuses' = Append(pm_statuses, status)
        /\ CASE status = 429 ->
                 /\ pm_waits' = Append(pm_waits, pm_sleep_time)
                 /\ pm_sleep_time' = pm_sleep_time * 2
                 /\ pm_retry' = pm_retry + 1
                 /\ pm_pc' = "loop"
             [] status = 200 ->
                 /\ pm_pc' = "parsed"
                 /\ UNCHANGED <<pm_waits, pm_sleep_time, pm_retry>>
             [] status >= 400 /\ status # 429 ->
                 \* raise_for_status raises, the except clause returns []
                 /\ pm_pc' = "returned_empty"
                 /\ UNCHANGED <<pm_waits, pm_sleep_time, pm_retry>>
             [] OTHER ->
                 \* raise_for_status does not raise: the loop goes round
                 /\ pm_pc' = "loop"
                 /\ UNCHANGED <<pm_waits, pm_sleep_time, pm_retry>>
    /\ UNCHANGED pm_variant
    /\ UNCHANGED <<mergeVars, searchVars, wosVars, semVars, invokeVars, batchVars, tokenVars, pagingVars, relevanceVars>>

\* lines 155-171: one pass of the while True loop of pubmed_search_urllib;
\* urlopen raises HTTPError for a status of 400 and above
PubmedUrllibAttempt ==
    /\ pm_variant = "urllib"
    /\ pm_pc = "loop"
    /\ pm_requests < MaxPubmedRequests
    /\ \E status \in PubmedStatuses :
        /\ pm_requests' = pm_requests + 1
        /\ pm_statuses' = Append(pm_statuses, status)
        /\ IF status >= 400
           THEN IF status = 429 /\ pm_retry < max_retry
                THEN /\ pm_waits' = Append(pm_waits, pm_sleep_time)
                     /\ pm_sleep_time' = pm_sleep_time * 2
                     /\ pm_retry' = pm_retry + 1
                     /\ pm_pc' = "loop"
                ELSE /\ pm_pc' = "raised"
                     /\ UNCHANGED <<pm_waits, pm_sleep_time, pm_retry>>
           ELSE /\ pm_pc' = "parsed"
                /\ UNCHANGED <<pm_waits, pm_sleep_time, pm_retry>>
    /\ UNCHANGED pm_variant
    /\ UNCHANGED <<mergeVars, searchVars, wosVars, semVars, invokeVars, batchVars, tokenVars, pagingVars, relevanceVars>>

NextPubmed == PubmedRequestsAttempt \/ PubmedUrllibAttempt

SpecPubmed == InitPubmed /\ [][NextPubmed]_vars

-----------------------------------------------------------------------------
(* SemanticBulkSearchAPI.query, semantic_bulk_search.py lines 14-39, 58-159 *)

\* lines 32-39 with the else branch returning the value unchanged
check_typeAcceptAll(document_type) ==
    IF ~Truthy(document_type) \/ document_type = "All" THEN ""
    ELSE IF document_type = "Article" THEN "JournalArticle"
    ELSE document_type

\* lines 32-39: the publicationTypes value, RAISE for ToolParameterValidationError
check_type(document_type) ==
    IF ~Truthy(document_type) \/ document_type = "All" THEN ""
    ELSE IF document_type = "Article" THEN "JournalArticle"
    ELSE IF document_type = "Review" THEN "Review"
    ELSE RAISE

MaxSemNum == 3          \* largest num_results tried
MaxSemTotal == 3        \* largest total a response reports
MaxSemPage == 2         \* most papers one response carries
MaxSemRequests == 4     \* requests after which a call is followed no further

DocumentTypes == {NONE, "", "All", "Article", "Review", "Book"}

\* what one requests.get of query_once can end in: status 0 stands for the
\* except branch of lines 102-105, n is len(data) after lines 112-118
SemAnswers ==
    {[status |-> 200, total |-> t, n |-> k, token |-> b] :
        t \in 1..MaxSemTotal, k \in 0..MaxSemPage, b \in BOOLEAN}
    \cup {[status |-> 200, total |-> 0, n |-> 0, token |-> FALSE]}
    \cup {[status |-> s, total |-> -1, n |-> 0, token |-> FALSE] : s \in {0, 429, 500}}

\* lines 100-121: the (total, len(data), token is not None) query_once returns
query_once(answer) ==
    IF answer.status = 200
    THEN [total |-> answer.total, n |-> answer.n, token |-> answer.token]
    ELSE [total |-> 0, n |-> 0, token |-> FALSE]

\* a list of k papers
Papers(k) == [i \in 1..k |-> "paper"]

InitSemantic ==
    /\ MergeIdle /\ SearchIdle /\ WosIdle /\ PubmedIdle /\ InvokeIdle /\ BatchIdle /\ TokenIdle /\ PagingIdle /\ RelevanceIdle
    /\ sem_document_type \in DocumentTypes
    /\ sem_num_results \in 0..MaxSemNum
    /\ sem_pc = "start"
    /\ sem_result = <<>>
    /\ sem_rest = 0
    /\ sem_token = FALSE
    /\ sem_responses = <<>>
    /\ sem_events = <<>>
    /\ sem_error = ""

\* lines 133-134: check_query and check_type
SemCheck ==
    /\ sem_pc = "start"
    /\ IF check_type(sem_document_type) = RAISE
       THEN /\ sem_pc' = "raised"
            /\ sem_error' = "ToolParameterValidationError"
       ELSE /\ sem_pc' = "first"
            /\ UNCHANGED sem_error
    /\ UNCHANGED <<sem_document_type, sem_num_results, sem_result, sem_rest, sem_token,
                   sem_responses, sem_events>>
    /\ UNCHANGED <<mergeVars, searchVars, wosVars, pubmedVars, invokeVars, batchVars, tokenVars, pagingVars, relevanceVars>>

\* lines 136-148: the first query_once and what follows it
SemFirstQuery ==
    /\ sem_pc = "first"
    /\ \E answer \in SemAnswers :
        LET r == query_once(answer) IN
        /\ sem_responses' = Append(sem_responses, [status |-> answer.status, total |-> answer.total,
                                                   n |-> r.n, token |-> r.token])
        /\ sem_events' = Append(sem_events, "request")
        /\ sem_token' = r.token
        /\ IF r.total = 0
           THEN /\ sem_result' = <<"{}">>
                /\ sem_pc' = "returned"
                /\ UNCHANGED sem_rest
           ELSE IF r.n >= sem_num_results
           THEN /\ sem_result' = SubSeq(Papers(r.n), 1, sem_num_results)
                /\ sem_pc' = "returned"
                /\ UNCHANGED sem_rest
           ELSE /\ sem_result' = Papers(r.n)
                /\ sem_rest' = MinOf(sem_num_results, r.total) - r.n
                /\ sem_pc' = "loop"
    /\ UNCHANGED <<sem_document_type, sem_num_results, sem_error>>
    /\ UNCHANGED <<mergeVars, searchVars, wosVars, pubmedVars, invokeVars, batchVars, tokenVars, pagingVars, relevanceVars>>

\* lines 150-157: one iteration of the while loop
SemLoopQuery ==
    /\ sem_pc = "loop"
    /\ sem_rest > 0
    /\ Len(sem_responses) < MaxSemRequests
    /\ \E answer \in SemAnswers :
        LET r == query_once(answer) IN
        /\ sem_responses' = Append(sem_responses, [status |-> answer.status, total |-> answer.total,
                                                   n |-> r.n, token |-> r.token])
        /\ sem_token' = r.token
        /\ IF ~r.token
           THEN /\ sem_pc' = "returned"
                /\ sem_events' = Append(sem_events, "request")
                /\ UNCHANGED <<sem_result, sem_rest>>
           ELSE /\ sem_result' = sem_result \o Papers(r.n)
                /\ sem_rest' = sem_rest - r.n
                /\ sem_events' = sem_events \o <<"request", "sleep">>
                /\ sem_pc' = "loop"
    /\ UNCHANGED <<sem_document_type, sem_num_results, sem_error>>
    /\ UNCHANGED <<mergeVars, searchVars, wosVars, pubmedVars, invokeVars, batchVars, tokenVars, pagingVars, relevanceVars>>

\* lines 150 and 159: the loop ends and the result is returned
SemReturn ==
    /\ sem_pc = "loop"
    /\ sem_rest <= 0
    /\ sem_pc' = "returned"
    /\ UNCHANGED <<sem_document_type, sem_num_results, sem_result, sem_rest, sem_token,
                   sem_responses, sem_events, sem_error>>
    /\ UNCHANGED <<mergeVars, searchVars, wosVars, pubmedVars, invokeVars, batchVars, tokenVars, pagingVars, relevanceVars>>

NextSemantic == SemCheck \/ SemFirstQuery \/ SemLoopQuery \/ SemReturn

SpecSemantic == InitSemantic /\ [][NextSemantic]_vars

-----------------------------------------------------------------------------
(* LiteratureSearchTool._invoke, literature.py lines 426-475, with the two  *)
(* source calls of PaperSearchAPI.search, lines 323 and 326                 *)

\* the values of tool_parameters.get('query'): not given, empty, a query
Queries == {ABSENT, "", "q"}

\* wos_search.py line 93: the positional parameters search accepts after self
WosSearchParams == 4

\* literature.py line 88: the positional arguments wos_search passes to search
WosSearchArgs == 6

InitInvoke ==
    /\ MergeIdle /\ SearchIdle /\ WosIdle /\ PubmedIdle /\ SemIdle /\ BatchIdle /\ TokenIdle /\ PagingIdle /\ RelevanceIdle
    /\ inv_query \in Queries
    /\ inv_document_type \in DocumentTypes \cup {ABSENT}
    /\ ipc = "start"
    /\ inv_requests = 0
    /\ inv_semantic_result = <<>>
    /\ inv_error = ""

\* lines 437-442: the query is required
InvokeCheckQuery ==
    /\ ipc = "start"
    /\ IF ~Truthy(Get([q |-> inv_query], "q"))
       THEN /\ ipc' = "raised"
            /\ inv_error' = "ToolParameterValidationError"
       ELSE /\ ipc' = "semantic"
            /\ UNCHANGED inv_error
    /\ UNCHANGED <<inv_query, inv_document_type, inv_requests, inv_semantic_result>>
    /\ UNCHANGED <<mergeVars, searchVars, wosVars, pubmedVars, semVars, batchVars, tokenVars, pagingVars, relevanceVars>>

\* lines 444-471 and 323: semantic_bulk_search, that is
\* SemanticBulkSearchAPI.query (check_type before the first request) and the
\* shaping of lines 51-65; a 200 answer that is not the expected JSON raises
\* at semantic_bulk_search.py lines 109-110
InvokeSemantic ==
    /\ ipc = "semantic"
    /\ LET document_type == IF inv_document_type = ABSENT THEN "All" ELSE inv_document_type IN
       IF check_type(document_type) = RAISE
       THEN /\ ipc' = "raised"
            /\ inv_error' = "ToolParameterValidationError"
            /\ UNCHANGED <<inv_requests, inv_semantic_result>>
       ELSE \E k \in 1..MaxSemRequests :
            /\ inv_requests' = inv_requests + k
            /\ \/ /\ inv_semantic_result' \in SeqsUpTo(SearchSemRecs, MaxSrc)
                  /\ ipc' = "wos"
                  /\ UNCHANGED inv_error
               \/ /\ ipc' = "raised"
                  /\ inv_error' = "ValueError"
                  /\ UNCHANGED inv_semantic_result
    /\ UNCHANGED <<inv_query, inv_document_type>>
    /\ UNCHANGED <<mergeVars, searchVars, wosVars, pubmedVars, semVars, batchVars, tokenVars, pagingVars, relevanceVars>>

\* lines 326 and 88: wos_search calls WosSearchAPI.search with more positional
\* arguments than it accepts
InvokeWos ==
    /\ ipc = "wos"
    /\ WosSearchArgs > WosSearchParams
    /\ ipc' = "raised"
    /\ inv_error' = "TypeError"
    /\ UNCHANGED <<inv_query, inv_document_type, inv_requests, inv_semantic_result>>
    /\ UNCHANGED <<mergeVars, searchVars, wosVars, pubmedVars, semVars, batchVars, tokenVars, pagingVars, relevanceVars>>

NextInvoke == InvokeCheckQuery \/ InvokeSemantic \/ InvokeWos

SpecInvoke == InitInvoke /\ [][NextInvoke]_vars

-----------------------------------------------------------------------------
(* SemanticScholarBatchAPI.query as a call, semantic_scholar.py lines 20-52 *)

max_query_size == 500   \* semantic_scholar.py line 18
MaxBatch == 3           \* longest batch whose answers are all enumerated
MaxBatchLen == 502      \* longest batch tried

BatchIds == {"DOI:a", "DOI:b"}

\* a batch of n identifiers
LongBatch(n) == [i \in 1..n |-> "DOI:a"]

\* line 34 with >= for >
TooManyIdsInclusive(ids) == Len(ids) >= max_query_size

\* line 34: len(ids) > self.max_query_size
TooManyIds(ids) == Len(ids) > max_query_size

\* the JSON arrays tried as the answer to a batch: every array up to the
\* length of a short batch, two uniform arrays for a long one
BatchResponses(ids) ==
    IF Len(ids) <= MaxBatch
    THEN UNION {[1..m -> BatchPapers] : m \in 0..Len(ids)}
    ELSE {[i \in 1..Len(ids) |-> NullPaper], [i \in 1..Len(ids) |-> Paper("n", "x")]}

InitBatch ==
    /\ MergeIdle /\ SearchIdle /\ WosIdle /\ PubmedIdle /\ SemIdle /\ InvokeIdle /\ TokenIdle /\ PagingIdle /\ RelevanceIdle
    /\ batch_ids \in SeqsUpTo(BatchIds, MaxBatch)
                     \cup {LongBatch(n) : n \in (max_query_size - 1)..MaxBatchLen}
    /\ batch_filtered \in BOOLEAN
    /\ batch_fields_abstract \in BOOLEAN
    /\ bpc = "call"
    /\ batch_requests = 0
    /\ batch_answered = FALSE
    /\ batch_response = <<>>
    /\ batch_result = <<>>
    /\ batch_error = ""

\* lines 34-35: the size check
BatchCheckSize ==
    /\ bpc = "call"
    /\ IF TooManyIds(batch_ids)
       THEN /\ bpc' = "raised"
            /\ batch_error' = "ToolParameterValidationError"
       ELSE /\ bpc' = "request"
            /\ UNCHANGED batch_error
    /\ UNCHANGED <<batch_ids, batch_filtered, batch_fields_abstract, batch_requests,
                   batch_answered, batch_response, batch_result>>
    /\ UNCHANGED <<mergeVars, searchVars, wosVars, pubmedVars, semVars, invokeVars, tokenVars, pagingVars, relevanceVars>>

\* lines 36-52: the request, the except branch returning [], the zip
BatchRequest ==
    /\ bpc = "request"
    /\ batch_requests' = batch_requests + 1
    /\ \/ /\ batch_answered' = FALSE
          /\ batch_result' = <<>>
          /\ UNCHANGED batch_response
       \/ \E response \in BatchResponses(batch_ids) :
          /\ batch_answered' = TRUE
          /\ batch_response' = response
          /\ batch_result' = BatchQuery(batch_ids, response,
                                        batch_filtered /\ batch_fields_abstract)
    /\ bpc' = "returned"
    /\ UNCHANGED <<batch_ids, batch_filtered, batch_fields_abstract, batch_error>>
    /\ UNCHANGED <<mergeVars, searchVars, wosVars, pubmedVars, semVars, invokeVars, tokenVars, pagingVars, relevanceVars>>

NextBatch == BatchCheckSize \/ BatchRequest

SpecBatch == InitBatch /\ [][NextBatch]_vars

-----------------------------------------------------------------------------
(* ZhiHuiYaProvider.get_bearer_token, zhihuiya.py lines 10-41              *)

TokenLifetime == 1500   \* zhihuiya.py line 33
MaxAdvances == 4        \* clock advances in one behaviour
MaxTokenCalls == 3      \* calls of get_bearer_token in one behaviour

\* the amounts the clock advances by: a second, one second short of the
\* lifetime of a token, the lifetime
ClockSteps == {1, TokenLifetime - 1, TokenLifetime}

\* line 33: str(...) of a float, the text os.environ stores
str(x) == <<"repr", x>>

\* line 35: float(...) of that text
float(s) == s[2]

\* line 35 letting a token live one second longer
ExpiredLate(environ, now) == float(environ.expire[1]) + 1 < now

\* line 35: float(os.environ["ZHIHUIYA_BEARER_TOKEN_EXPIRE"]) < time.time()
Expired(environ, now) == float(environ.expire[1]) < now

\* lines 37-38 without the second del
DiscardExpiredTokenOnly(environ) == [environ EXCEPT !.token = <<>>]

\* lines 37-38: both variables are deleted
DiscardExpired(environ) == [environ EXCEPT !.token = <<>>, !.expire = <<>>]

\* lines 31 and 33: the token and its expiry are stored
StoreToken(environ, token, now) ==
    [environ EXCEPT !.token = <<token>>, !.expire = <<str(now + TokenLifetime)>>]

InitToken ==
    /\ MergeIdle /\ SearchIdle /\ WosIdle /\ PubmedIdle /\ SemIdle /\ InvokeIdle /\ BatchIdle /\ PagingIdle /\ RelevanceIdle
    /\ tok_environ = [token |-> <<>>, expire |-> <<>>]
    /\ tok_now = 0
    /\ tok_pc = "idle"
    /\ tok_advances = 0
    /\ tok_calls = 0
    /\ tok_requests = 0
    /\ tok_issued = <<>>
    /\ tok_found = [cache |-> "none", at |-> 0]
    /\ tok_last = [outcome |-> "none", token |-> 0, found |-> "none", at |-> 0, requests |-> 0]

\* time passes, also while a request is in flight
ClockAdvance ==
    /\ tok_pc \in {"idle", "request"}
    /\ tok_advances < MaxAdvances
    /\ \E d \in ClockSteps : tok_now' = tok_now + d
    /\ tok_advances' = tok_advances + 1
    /\ UNCHANGED <<tok_environ, tok_pc, tok_calls, tok_requests, tok_issued, tok_found, tok_last>>
    /\ UNCHANGED <<mergeVars, searchVars, wosVars, pubmedVars, semVars, invokeVars, batchVars, pagingVars, relevanceVars>>

\* lines 11-23 and 34-41: the call up to its return or up to requests.post;
\* the recursive call of line 39 goes on at line 11 with no token in os.environ
TokenCall ==
    /\ tok_pc = "idle"
    /\ tok_calls < MaxTokenCalls
    /\ tok_calls' = tok_calls + 1
    /\ IF tok_environ.token = <<>>
       THEN /\ tok_found' = [cache |-> "none", at |-> tok_now]
            /\ tok_pc' = "request"
            /\ tok_requests' = 1
            /\ UNCHANGED <<tok_environ, tok_last>>
       ELSE IF tok_environ.expire = <<>>
       THEN /\ tok_found' = [cache |-> "valid", at |-> tok_now]
            /\ tok_pc' = "idle"
            /\ tok_requests' = 0
            /\ tok_last' = [outcome |-> "KeyError", token |-> 0, found |-> "valid",
                            at |-> tok_now, requests |-> 0]
            /\ UNCHANGED tok_environ
       ELSE IF Expired(tok_environ, tok_now)
       THEN /\ tok_found' = [cache |-> "expired", at |-> tok_now]
            /\ tok_environ' = DiscardExpired(tok_environ)
            /\ tok_pc' = "request"
            /\ tok_requests' = 1
            /\ UNCHANGED tok_last
       ELSE /\ tok_found' = [cache |-> "valid", at |-> tok_now]
            /\ tok_pc' = "idle"
            /\ tok_requests' = 0
            /\ tok_last' = [outcome |-> "returned", token |-> tok_environ.token[1],
                            found |-> "valid", at |-> tok_now, requests |-> 0]
            /\ UNCHANGED tok_environ
    /\ UNCHANGED <<tok_now, tok_advances, tok_issued>>
    /\ UNCHANGED <<mergeVars, searchVars, wosVars, pubmedVars, semVars, invokeVars, batchVars, pagingVars, relevanceVars>>

\* lines 23-29 raising: requests.post fails, raise_for_status raises, or the
\* status of the answer is falsy; os.environ is left as it is
TokenRequestFails ==
    /\ tok_pc = "request"
    /\ tok_pc' = "idle"
    /\ tok_last' = [outcome |-> "raised", token |-> 0, found |-> tok_found.cache,
                    at |-> tok_found.at, requests |-> tok_requests]
    /\ UNCHANGED <<tok_environ, tok_now, tok_advances, tok_calls, tok_requests, tok_issued, tok_found>>
    /\ UNCHANGED <<mergeVars, searchVars, wosVars, pubmedVars, semVars, invokeVars, batchVars, pagingVars, relevanceVars>>

\* lines 23-33 and 41: the answer carries a token, the k-th one issued
TokenRequestSucceeds ==
    /\ tok_pc = "request"
    /\ tok_pc' = "idle"
    /\ tok_issued' = Append(tok_issued, tok_now)
    /\ tok_environ' = StoreToken(tok_environ, Len(tok_issued) + 1, tok_now)
    /\ tok_last' = [outcome |-> "returned", token |-> Len(tok_issued) + 1, found |-> tok_found.cache,
                    at |-> tok_found.at, requests |-> tok_requests]
    /\ UNCHANGED <<tok_now, tok_advances, tok_calls, tok_requests, tok_found>>
    /\ UNCHANGED <<mergeVars, searchVars, wosVars, pubmedVars, semVars, invokeVars, batchVars, pagingVars, relevanceVars>>

NextToken == ClockAdvance \/ TokenCall \/ TokenRequestFails \/ TokenRequestSucceeds

SpecToken == InitToken /\ [][NextToken]_vars

-----------------------------------------------------------------------------
(* The four pagination loops: SemanticBulkSearchAPI.query lines 136-159,    *)
(* WosSearchAPI.search lines 105-126, PatentQueryAPI.query lines 95-109 and *)
(* SimilarSearchAPI.search lines 80-94. Only what decides whether the loop  *)
(* goes on is kept: the records and the requests made are not recorded, so  *)
(* a loop that never ends shows as a cycle; the parity of the number of     *)
(* requests tells one iteration from the next.                              *)

MaxPages == 2           \* num and total go up to one record more than this many full pages

Loops == {"semantic_bulk", "wos", "patent", "similar"}

\* self.limit of wos_search.py line 25, max_limit of patent_query.py line 17
\* and of similar_search.py line 13
LoopLimit(loop) ==
    IF loop = "wos" THEN PageLimit
    ELSE IF loop = "patent" THEN 100
    ELSE 1000

\* the values of num and of the source's total tried for a page size: none,
\* and every whole number of pages, one less and one more
PagingNums(limit) ==
    {0} \cup {n \in {k * limit + d : k \in 0..MaxPages, d \in {-1, 0, 1}} : n > 0}

\* what a query_once of the three offset loops can end in. similar_search.py
\* line 56 posts to self.api_key, which is no URL: requests raises before
\* anything is sent. limit <= 0 returns (0, []) without a request.
OffsetOutcomes(loop, limit) ==
    IF limit <= 0 THEN {0}
    ELSE IF loop = "similar" THEN {-1}
    ELSE {-1} \cup PagingNums(LoopLimit(loop))

InitPaging ==
    /\ MergeIdle /\ SearchIdle /\ WosIdle /\ PubmedIdle /\ SemIdle /\ InvokeIdle /\ BatchIdle /\ TokenIdle /\ RelevanceIdle
    /\ pg_loop \in Loops
    /\ pg_num \in (IF pg_loop = "semantic_bulk" THEN 0..MaxSemNum ELSE PagingNums(LoopLimit(pg_loop)))
    /\ pg_pc = "first"
    /\ pg_limit = 0
    /\ pg_rest = 0
    /\ pg_parity = 0

\* semantic_bulk_search.py lines 136-148
BulkFirstQuery ==
    /\ pg_pc = "first"
    /\ pg_loop = "semantic_bulk"
    /\ \E answer \in SemAnswers :
        LET r == query_once(answer) IN
        IF r.total = 0 \/ r.n >= pg_num
        THEN /\ pg_pc' = "returned"
             /\ UNCHANGED pg_rest
        ELSE /\ pg_rest' = MinOf(pg_num, r.total) - r.n
             /\ pg_pc' = "loop"
    /\ pg_parity' = 1 - pg_parity
    /\ UNCHANGED <<pg_loop, pg_num, pg_limit>>
    /\ UNCHANGED <<mergeVars, searchVars, wosVars, pubmedVars, semVars, invokeVars, batchVars, tokenVars, relevanceVars>>

\* semantic_bulk_search.py lines 150-157: one iteration
BulkLoopQuery ==
    /\ pg_pc = "loop"
    /\ pg_loop = "semantic_bulk"
    /\ pg_rest > 0
    /\ \E answer \in SemAnswers :
        LET r == query_once(answer) IN
        IF ~r.token
        THEN /\ pg_pc' = "returned"
             /\ UNCHANGED pg_rest
        ELSE /\ pg_rest' = pg_rest - r.n
             /\ pg_pc' = "loop"
    /\ pg_parity' = 1 - pg_parity
    /\ UNCHANGED <<pg_loop, pg_num, pg_limit>>
    /\ UNCHANGED <<mergeVars, searchVars, wosVars, pubmedVars, semVars, invokeVars, batchVars, tokenVars, relevanceVars>>

\* wos_search.py lines 105-113, patent_query.py lines 95-100,
\* similar_search.py lines 80-85
OffsetFirstQuery ==
    /\ pg_pc = "first"
    /\ pg_loop # "semantic_bulk"
    /\ LET limit == MinOf(pg_num, LoopLimit(pg_loop)) IN
       /\ pg_limit' = limit
       /\ \E total \in OffsetOutcomes(pg_loop, limit) :
            IF total = -1
            THEN /\ pg_pc' = "raised"
                 /\ UNCHANGED pg_rest
            ELSE IF pg_loop = "wos" /\ total = 0
            THEN /\ pg_pc' = "returned"
                 /\ UNCHANGED pg_rest
            ELSE /\ pg_rest' = RestAfterFirst(pg_num, total, limit)
                 /\ pg_pc' = "loop"
    /\ pg_parity' = 1 - pg_parity
    /\ UNCHANGED <<pg_loop, pg_num>>
    /\ UNCHANGED <<mergeVars, searchVars, wosVars, pubmedVars, semVars, invokeVars, batchVars, tokenVars, relevanceVars>>

\* wos_search.py lines 115-124, patent_query.py lines 101-107,
\* similar_search.py lines 86-92: one iteration
OffsetLoopQuery ==
    /\ pg_pc = "loop"
    /\ pg_loop # "semantic_bulk"
    /\ pg_rest > 0
    /\ LET limit == MinOf(pg_rest, LoopLimit(pg_loop)) IN
       /\ pg_limit' = limit
       /\ \E total \in OffsetOutcomes(pg_loop, limit) :
            IF total = -1
            THEN /\ pg_pc' = "raised"
                 /\ UNCHANGED pg_rest
            ELSE IF pg_loop = "wos" /\ total = 0
            THEN /\ pg_pc' = "returned"
                 /\ UNCHANGED pg_rest
            ELSE /\ pg_rest' = pg_rest - limit
                 /\ pg_pc' = "loop"
    /\ pg_parity' = 1 - pg_parity
    /\ UNCHANGED <<pg_loop, pg_num>>
    /\ UNCHANGED <<mergeVars, searchVars, wosVars, pubmedVars, semVars, invokeVars, batchVars, tokenVars, relevanceVars>>

\* the while condition fails and the result is returned
PagingReturn ==
    /\ pg_pc = "loop"
    /\ pg_rest <= 0
    /\ pg_pc' = "returned"
    /\ UNCHANGED <<pg_loop, pg_num, pg_limit, pg_rest, pg_parity>>
    /\ UNCHANGED <<mergeVars, searchVars, wosVars, pubmedVars, semVars, invokeVars, batchVars, tokenVars, relevanceVars>>

NextPaging == BulkFirstQuery \/ BulkLoopQuery \/ OffsetFirstQuery \/ OffsetLoopQuery \/ PagingReturn

\* the calling thread runs until the call returns or raises, and every
\* request is answered: a step that can be taken is taken
SpecPaging == InitPaging /\ [][NextPaging]_vars /\ WF_vars(NextPaging)

-----------------------------------------------------------------------------
(* SemanticRelevanceSearchTool.query, semantic_relevance_search.py lines    *)
(* 18-57                                                                    *)

RelevanceLimit == 100   \* semantic_relevance_search.py line 40
MaxRelNum == 250        \* largest num_results tried

\* the totals tried for the source
RelTotals == {0, 50, RelevanceLimit - 1, RelevanceLimit, MaxRelNum + 50}

\* lines 18-32: the (total, data) of one request for `limit` records from
\* `offset` on; ok = FALSE is a status other than 200
relevance_query_once(total, without_abstract, offset, limit, ok) ==
    IF ~ok THEN [total |-> 0, data |-> <<>>]
    ELSE LET last == MinOf(offset + limit, total)
             page == [k \in 1..(IF last > offset THEN last - offset ELSE 0) |-> offset + k]
         IN [total |-> total, data |-> SelectSeq(page, LAMBDA p : p \notin without_abstract)]

\* line 57: result[:num_results], num_results being what line 53 left of it
FinalSlice(res, num_results) ==
    IF num_results >= 0 THEN SubSeq(res, 1, MinOf(Len(res), num_results))
    ELSE SubSeq(res, 1, Len(res) + num_results)

InitRelevance ==
    /\ MergeIdle /\ SearchIdle /\ WosIdle /\ PubmedIdle /\ SemIdle /\ InvokeIdle /\ BatchIdle /\ TokenIdle /\ PagingIdle
    /\ rel_requested \in 1..MaxRelNum
    /\ rel_total \in RelTotals
    /\ rel_without_abstract \in {{}, {1}}
    /\ rel_pc = "first"
    /\ rel_num_results = rel_requested
    /\ rel_i = 0
    /\ rel_result = <<>>
    /\ rel_calls = <<>>
    /\ rel_failed = FALSE

\* lines 40-50: the first request and the two early returns
RelFirstQuery ==
    /\ rel_pc = "first"
    /\ \E ok \in BOOLEAN :
        LET limit == MinOf(rel_num_results, RelevanceLimit)
            r == relevance_query_once(rel_total, rel_without_abstract, 0, limit, ok)
        IN /\ rel_calls' = Append(rel_calls, [offset |-> 0, limit |-> limit])
           /\ rel_failed' = (rel_failed \/ ~ok)
           /\ IF r.total = 0
              THEN /\ rel_result' = <<>>
                   /\ rel_pc' = "returned"
                   /\ UNCHANGED rel_i
              ELSE IF limit < RelevanceLimit \/ r.total < RelevanceLimit
              THEN /\ rel_result' = r.data
                   /\ rel_pc' = "returned"
                   /\ UNCHANGED rel_i
              ELSE /\ rel_result' = r.data
                   /\ rel_pc' = "loop"
                   /\ rel_i' = 1
    /\ UNCHANGED <<rel_requested, rel_total, rel_without_abstract, rel_num_results>>
    /\ UNCHANGED <<mergeVars, searchVars, wosVars, pubmedVars, semVars, invokeVars, batchVars, tokenVars, pagingVars>>

\* lines 51-56: one iteration of for i in range(1, num_results // 100 + 1),
\* the range being fixed when the loop starts
RelLoopQuery ==
    /\ rel_pc = "loop"
    /\ rel_i < rel_requested \div RelevanceLimit + 1
    /\ \E ok \in BOOLEAN :
        LET num_results == rel_num_results - RelevanceLimit
            offset == rel_i * RelevanceLimit
            limit == MinOf(num_results, RelevanceLimit)
            r == relevance_query_once(rel_total, rel_without_abstract, offset, limit, ok)
        IN /\ rel_num_results' = num_results
           /\ rel_calls' = Append(rel_calls, [offset |-> offset, limit |-> limit])
           /\ rel_failed' = (rel_failed \/ ~ok)
           /\ rel_result' = rel_result \o r.data
           /\ rel_i' = rel_i + 1
    /\ UNCHANGED <<rel_requested, rel_total, rel_without_abstract, rel_pc>>
    /\ UNCHANGED <<mergeVars, searchVars, wosVars, pubmedVars, semVars, invokeVars, batchVars, tokenVars, pagingVars>>

\* line 57: the range is exhausted and result[:num_results] is returned
RelReturn ==
    /\ rel_pc = "loop"
    /\ rel_i >= rel_requested \div RelevanceLimit + 1
    /\ rel_result' = FinalSlice(rel_result, rel_num_results)
    /\ rel_pc' = "returned"
    /\ UNCHANGED <<rel_requested, rel_total, rel_without_abstract, rel_num_results, rel_i, rel_calls, rel_failed>>
    /\ UNCHANGED <<mergeVars, searchVars, wosVars, pubmedVars, semVars, invokeVars, batchVars, tokenVars, pagingVars>>

NextRelevance == RelFirstQuery \/ RelLoopQuery \/ RelReturn

SpecRelevance == InitRelevance /\ [][NextRelevance]_vars

-----------------------------------------------------------------------------
(* Properties of merge_and_deduplicate                                      *)

combined == list_a \o list_b

\* the key of a record as the data model states it: DOI, else PMID, else title
HasKey(r) == Truthy(r["doi"]) \/ Truthy(r["pmid"]) \/ Truthy(r["title"])
StatedKey(r) ==
    IF Truthy(r["doi"]) THEN Lower(r["doi"])
    ELSE IF Truthy(r["pmid"]) THEN Lower(r["pmid"])
    ELSE Lower(r["title"])

\* the output positions that input position i was merged into
SlotsOf(i) == {j \in 1..Len(merged_dict) : i \in merged_dict[j].src}

\* C1: two input records with a key land in the same output record exactly
\* when their keys (lower DOI, else lower PMID, else lower title) are equal;
\* each lands in exactly one output record, and records whose DOIs differ
\* stay separate even when they carry the same PMID.
C1_SameRecordIffSameKey ==
    mpc = "merged" =>
        \A i, j \in 1..Len(combined) :
            (HasKey(combined[i]) /\ HasKey(combined[j])) =>
                /\ Cardinality(SlotsOf(i)) = 1
                /\ (SlotsOf(i) = SlotsOf(j)) <=> (StatedKey(combined[i]) = StatedKey(combined[j]))
                /\ ( /\ Truthy(combined[i]["doi"]) /\ Truthy(combined[j]["doi"])
                     /\ Lower(combined[i]["doi"]) # Lower(combined[j]["doi"]) )
                   => SlotsOf(i) # SlotsOf(j)

C1_Witness ==
    /\ mpc = "merged"
    /\ \E i, j, k \in 1..Len(combined) :
        /\ Truthy(combined[i]["doi"]) /\ Truthy(combined[j]["doi"])
        /\ Lower(combined[i]["doi"]) # Lower(combined[j]["doi"])
        /\ Truthy(combined[i]["pmid"]) /\ combined[i]["pmid"] = combined[j]["pmid"]
        /\ SlotsOf(i) # SlotsOf(j)
        /\ k # i /\ combined[k]["doi"] # combined[i]["doi"] /\ SlotsOf(k) = SlotsOf(i)

\* C2: for every output record and every field, the value is the first truthy
\* value of that field among the input records merged into it, in input order,
\* when there is one; and a truthy value held after n records is still held
\* after n+1 records.
C2_FirstTruthyWins ==
    mpc = "merged" =>
        /\ \A j \in 1..Len(merged_dict) : \A f \in Fields :
              LET T == {i \in merged_dict[j].src : Truthy(combined[i][f])} IN
              T # {} => deduplicated_list[j][f] = combined[Min(T)][f]
        /\ \A n \in 0..(Len(combined) - 1) :
              LET before == MergeLoop(SubSeq(combined, 1, n), 1, <<>>)
                  after == MergeLoop(SubSeq(combined, 1, n + 1), 1, <<>>)
              IN \A j \in 1..Len(before) : \A f \in Fields :
                    Truthy(before[j].val[f]) => after[j].val[f] = before[j].val[f]

C2_Witness ==
    /\ mpc = "merged"
    /\ \E j \in 1..Len(merged_dict) : \E i1, i2, i3 \in merged_dict[j].src :
        /\ i1 < i2 /\ i2 < i3
        /\ ~Truthy(combined[i1]["abstract"])
        /\ Truthy(combined[i2]["abstract"]) /\ Truthy(combined[i3]["abstract"])
        /\ combined[i2]["abstract"] # combined[i3]["abstract"]
        /\ deduplicated_list[j]["abstract"] = combined[i2]["abstract"]

\* C3: two records that share a DOI, exactly one of them with a non-empty
\* abstract, merge into one record that carries that abstract, in either
\* order and for every split over list_a and list_b.
C3_AbstractKept ==
    (mpc = "merged" /\ Len(combined) = 2) =>
        \A i, j \in 1..2 :
            ( /\ i # j
              /\ Truthy(combined[i]["doi"]) /\ Truthy(combined[j]["doi"])
              /\ Lower(combined[i]["doi"]) = Lower(combined[j]["doi"])
              /\ Truthy(combined[i]["abstract"]) /\ ~Truthy(combined[j]["abstract"]) )
            => /\ Len(deduplicated_list) = 1
               /\ deduplicated_list[1]["abstract"] = combined[i]["abstract"]

C3_Witness ==
    /\ mpc = "merged"
    /\ Len(list_a) = 1 /\ Len(list_b) = 1
    /\ list_a[1]["doi"] = "a" /\ list_b[1]["doi"] = "A"
    /\ list_a[1]["abstract"] = ABSENT /\ list_b[1]["abstract"] = "s"
    /\ Len(deduplicated_list) = 1
    /\ deduplicated_list[1]["abstract"] = "s"

\* C4: merging the merged list with the empty list gives the merged list
\* again, and merging a list with itself gives what merging it with the empty
\* list gives.
C4_Idempotent ==
    /\ mpc \in {"remerged", "self"} => remerged = deduplicated_list
    /\ mpc = "self" => self_merged[1] = self_merged[2]

C4_Witness ==
    /\ mpc = "self"
    /\ Len(list_a) >= 3
    /\ Len(self_merged[1]) = 2
    /\ Len(deduplicated_list) >= 2 /\ Len(deduplicated_list) < Len(combined)
    /\ remerged = deduplicated_list
    /\ \E j \in 1..Len(deduplicated_list) : ~Truthy(deduplicated_list[j]["abstract"])

\* the lower-cased DOIs of a list
Dois(l) == {Lower(l[i]["doi"]) : i \in {k \in 1..Len(l) : Truthy(l[k]["doi"])}}

\* C5: every DOI of the inputs, compared without case, is the DOI of exactly
\* one output record, and every field that is truthy in some input record
\* with that DOI is truthy in that output record, with a value of a record
\* merged into it; two sources of distinct DOIs give as many output records
\* as there are DOIs (3 + 3 with 2 shared: 4).
C5_OneRecordPerDoi ==
    mpc = "merged" =>
        /\ \A i \in 1..Len(combined) : Truthy(combined[i]["doi"]) =>
              LET d == Lower(combined[i]["doi"])
                  holders == {j \in 1..Len(deduplicated_list) :
                                 /\ Truthy(deduplicated_list[j]["doi"])
                                 /\ Lower(deduplicated_list[j]["doi"]) = d}
              IN /\ Cardinality(holders) = 1
                 /\ \A j \in holders : \A f \in Fields :
                       Truthy(combined[i][f]) =>
                           /\ Truthy(deduplicated_list[j][f])
                           /\ \E k \in merged_dict[j].src :
                                 combined[k][f] = deduplicated_list[j][f]
        /\ ( /\ \A i \in 1..Len(combined) : Truthy(combined[i]["doi"])
             /\ Cardinality(Dois(list_a)) = Len(list_a)
             /\ Cardinality(Dois(list_b)) = Len(list_b) )
           => Len(deduplicated_list)
                 = Len(list_a) + Len(list_b) - Cardinality(Dois(list_a) \cap Dois(list_b))

C5_Witness ==
    /\ mpc = "merged"
    /\ Len(list_a) = 3 /\ Len(list_b) = 3
    /\ Cardinality(Dois(list_a)) = 3 /\ Cardinality(Dois(list_b)) = 3
    /\ Cardinality(Dois(list_a) \cap Dois(list_b)) = 2
    /\ "a" \in Dois(list_a) \cap Dois(list_b)
    /\ Len(deduplicated_list) = 4
    /\ \E j \in 1..4 : /\ Lower(deduplicated_list[j]["doi"]) = "a"
                       /\ deduplicated_list[j]["year"] = "y"
                       /\ deduplicated_list[j]["uid"] = "u"

\* the positions of combined at which a key occurs for the first time
FirstSeen ==
    {i \in 1..Len(combined) :
        /\ HasKey(combined[i])
        /\ \A k \in 1..(i - 1) :
              ~(HasKey(combined[k]) /\ StatedKey(combined[k]) = StatedKey(combined[i]))}

\* C7: the output holds one record per distinct key, in the order in which
\* the keys are first seen in list_a followed by list_b.
C7_FirstSeenOrder ==
    mpc = "merged" =>
        /\ Len(deduplicated_list) = Cardinality(FirstSeen)
        /\ \A i \in FirstSeen :
              LET j == Cardinality({k \in FirstSeen : k <= i}) IN
              /\ HasKey(deduplicated_list[j])
              /\ StatedKey(deduplicated_list[j]) = StatedKey(combined[i])
              /\ Min(merged_dict[j].src) = i

C7_Witness ==
    /\ mpc = "merged"
    /\ Len(list_a) = 2 /\ Len(list_b) = 1
    /\ FirstSeen = {1, 2}
    /\ StatedKey(combined[3]) = StatedKey(combined[1])
    /\ StatedKey(deduplicated_list[1]) = StatedKey(list_a[1])
    /\ StatedKey(deduplicated_list[2]) = StatedKey(list_a[2])

-----------------------------------------------------------------------------
(* Properties of PaperSearchAPI.search                                      *)

\* a source handed search a record without DOI, PMID and title
SourceHasUnkeyable ==
    \/ \E i \in 1..Len(semantic_result) : ~HasKey(semantic_result[i])
    \/ \E i \in 1..Len(wos_result) : ~HasKey(wos_result[i])

SameRecord(x, r) ==
    IF Truthy(r["doi"]) THEN x["doi"] = r["doi"]
    ELSE ~Truthy(x["doi"]) /\ x["pmid"] = r["pmid"]

\* position i of without_abstract_pmid holds a record whose DOI missed the
\* batch lookup and that got its PMID from get_pmid_by_doi
ResolvedByDoi(i) ==
    /\ Truthy(without_abstract_pmid[i]["doi"])
    /\ \E j \in 1..Len(without_abstract_doi) :
          without_abstract_doi[j]["doi"] = without_abstract_pmid[i]["doi"]

\* efetch answered and holds title and abstract for the PMID at position i
PubmedHit(i) == pubmed_xml # <<>> /\ pubmed_xml[i] = "full"

FilteredOut ==
    {without_abstract_doi[j] : j \in {j \in 1..Len(without_abstract_doi) :
        \A i \in 1..Len(without_abstract_pmid) :
            without_abstract_pmid[i]["doi"] # without_abstract_doi[j]["doi"]}}
    \cup {without_abstract_pmid[i] : i \in {i \in 1..Len(without_abstract_pmid) : ~PubmedHit(i)}}

StatedUrl(r) ==
    IF r["doi"] \notin {ABSENT, NONE, ""}
    THEN "https://doi.org/" \o r["doi"]
    ELSE "https://pubmed.ncbi.nlm.nih.gov/" \o r["pmid"]

IsLeftover(k) == ~filtered /\ k > Len(result) - Len(filtered_result)

-----------------------------------------------------------------------------
(* Properties of WosSearchAPI.search                                        *)

CeilDiv(a, b) == (a + b - 1) \div b

RECURSIVE SumLimits(_)
SumLimits(calls) ==
    IF Len(calls) = 0 THEN 0 ELSE calls[1].limit + SumLimits(Tail(calls))

\* the search returned and every call of query_once reported the total T > 0
SteadySearchReturned ==
    /\ wpc = "returned"
    /\ wos_num_results >= 1
    /\ wos_total > 0
    /\ Len(wos_totals) = Len(wos_calls)
    /\ \A k \in 1..Len(wos_totals) : wos_totals[k] = wos_total

\* C8: for a source reporting total = T > 0 on every page and N >= 1 requested
\* results, search makes exactly ceil(min(N,T)/50) calls of query_once, for the
\* pages 1, 2, 3, ..., each of at most 50 records, the sizes summing to
\* min(N,T) when min(N,T) >= 50; T = 237 and N >= 237 gives 50,50,50,50,37.
C8_PaginationCalls ==
    SteadySearchReturned =>
        LET m == MinOf(wos_num_results, wos_total) IN
        /\ Len(wos_calls) = CeilDiv(m, 50)
        /\ \A k \in 1..Len(wos_calls) :
              /\ wos_calls[k].page = k
              /\ wos_calls[k].limit >= 1
              /\ wos_calls[k].limit <= 50
        /\ (m >= 50) => (SumLimits(wos_calls) = m)
        /\ (wos_total = 237 /\ wos_num_results >= 237) =>
              ([k \in 1..Len(wos_calls) |-> wos_calls[k].limit] = <<50, 50, 50, 50, 37>>)

C8_Witness ==
    /\ SteadySearchReturned
    /\ wos_total = 237
    /\ wos_num_results >= 237
    /\ Len(wos_calls) = 5
    /\ wos_calls[5] = [page |-> 5, limit |-> 37]

\* C9: within one multi-page fetch a rate-limit sleep occurs between every two
\* consecutive page requests, including between the first and the second.
C9_SleepBetweenRequests ==
    \A k \in 1..(Len(wos_events) - 1) :
        ~(wos_events[k] = "request" /\ wos_events[k + 1] = "request")

\* C14: WosSearchAPI.search with a query scope outside {TS, TI, AU, DO, IS,
\* PMID} fails with the parameter-validation error kind, before any HTTP
\* request is issued.
C14_BadScopeInvalidParameter ==
    (wos_query_type \notin {"TS", "TI", "AU", "DO", "IS", "PMID"} /\ wpc # "start") =>
        /\ wpc = "raised"
        /\ wos_error = "ToolParameterValidationError"
        /\ wos_events = <<>>

-----------------------------------------------------------------------------
(* Properties of the PubMed fetch retry loops                               *)

AllTooManyRequests == \A k \in 1..Len(pm_statuses) : pm_statuses[k] = 429

\* C10: when the endpoint answers every request with HTTP 429, one call issues
\* at most 6 requests (the first plus max_retry = 5 retries) and then stops
\* with a failure.
C10_AtMostSixRequests ==
    AllTooManyRequests =>
        /\ pm_requests <= 6
        /\ (pm_requests = 6) => (pm_pc # "loop")

-----------------------------------------------------------------------------
(* Properties of SemanticBulkSearchAPI.query                                *)

\* some request of the call was answered with an HTTP status that is neither
\* 2xx nor 429
SomeUpstreamError == \E k \in 1..Len(sem_responses) : sem_responses[k].status = 500

\* C11: a non-2xx, non-429 HTTP response surfaces from the adapter as an error
\* outcome; the call never returns a list as if the fetch had succeeded.
C11_UpstreamErrorSurfaces ==
    SomeUpstreamError => sem_pc # "returned"

\* the first response is a 200 that reports a total of zero matches
ZeroTotalReported ==
    /\ Len(sem_responses) >= 1
    /\ sem_responses[1].status = 200
    /\ sem_responses[1].total = 0

\* C12: when the source reports zero total matches, the fetch returns an empty
\* sequence, a list of length 0, and raises no error.
C12_ZeroTotalReturnsEmpty ==
    ZeroTotalReported =>
        /\ sem_pc = "returned"
        /\ sem_error = ""
        /\ Len(sem_result) = 0

-----------------------------------------------------------------------------
(* Properties of LiteratureSearchTool._invoke                               *)

\* the query is missing or empty
QueryMissing == inv_query \in {ABSENT, NONE, ""}

\* the document type is none of: not given, empty, 'All', 'Article', 'Review'
DocumentTypeInvalid == inv_document_type \notin {ABSENT, NONE, "", "All", "Article", "Review"}

C19_SourceFailureAbsorbed ==
    (ipc = "raised") => (inv_error = "ToolParameterValidationError")

-----------------------------------------------------------------------------
(* Properties of SemanticScholarBatchAPI.query                              *)

StatedKept(i) ==
    IF batch_filtered
    THEN batch_response[i].found /\ batch_response[i].abstract # NONE
    ELSE TRUE

RECURSIVE StatedIds(_, _)
\* the identifiers of the positions lo..hi the claim says are returned, in order
StatedIds(lo, hi) ==
    IF lo > hi THEN <<>>
    ELSE IF lo = hi THEN (IF StatedKept(lo) THEN <<batch_ids[lo]>> ELSE <<>>)
    ELSE StatedIds(lo, (lo + hi) \div 2) \o StatedIds((lo + hi) \div 2 + 1, hi)

\* C16: the result is an order-preserving subsequence of the input batch, each
\* record tagged with the identifier at its own input position; with
\* filtered=True a record is returned exactly when the provider returned data
\* for it with a non-null abstract, with filtered=False records with no data or
\* no abstract are kept.
C16_OrderedSubsequence ==
    (bpc = "returned" /\ batch_answered /\ Len(batch_response) = Len(batch_ids)) =>
        [k \in 1..Len(batch_result) |-> batch_result[k].id] = StatedIds(1, Len(batch_ids))

-----------------------------------------------------------------------------
(* Properties of get_bearer_token                                           *)

\* the expiry the statement gives the k-th token: its fetch time plus 1500 seconds
StatedExpiry(k) == tok_issued[k] + 1500

\* C21: a call of get_bearer_token that returns a token never returns one
\* whose expiry (fetch time + 1500 s) is earlier than the time at which the
\* call looked at the cache; a call that found an expired token returns a
\* token fetched during that same call, and the expired one has left the cache
C21_NoExpiredTokenReturned ==
    /\ tok_last.outcome = "returned" =>
          /\ StatedExpiry(tok_last.token) >= tok_last.at
          /\ tok_last.found = "expired" =>
                /\ tok_issued[tok_last.token] >= tok_last.at
                /\ tok_last.requests = 1
    /\ (tok_pc = "request" /\ tok_found.cache = "expired") => tok_environ.token = <<>>

\* a second token has been fetched by a call that found the first one expired
C21_Witness ==
    /\ tok_pc = "idle"
    /\ tok_last.outcome = "returned"
    /\ tok_last.found = "expired"
    /\ tok_last.token = 2
    /\ tok_last.at = tok_issued[1] + 1501

\* C29: a token request is issued only by a call that found no token or an
\* expired one, a call issues at most one token request, and between calls
\* the cached token and its expiry are both present or both absent
C29_CacheConsistent ==
    /\ tok_requests <= 1
    /\ (tok_requests = 1) => tok_found.cache \in {"none", "expired"}
    /\ (tok_pc = "idle") => ((tok_environ.token = <<>>) <=> (tok_environ.expire = <<>>))
    /\ tok_last.requests <= 1
    /\ (tok_last.found = "valid") => tok_last.requests = 0

\* a call that found an expired token failed to fetch a new one
C29_Witness ==
    /\ tok_pc = "idle"
    /\ tok_last.outcome = "raised"
    /\ tok_last.found = "expired"
    /\ tok_last.requests = 1
    /\ tok_environ.token = <<>>

-----------------------------------------------------------------------------
(* Properties of the pagination loops                                       *)

PagingDone == pg_pc \in {"returned", "raised"}

\* C22: every pagination loop terminates, whatever the source answers
C22_EveryLoopTerminates == <>PagingDone

\* the loops that count pages by the limit asked for terminate
OffsetLoopsTerminate == <>(pg_loop = "semantic_bulk" \/ PagingDone)

-----------------------------------------------------------------------------
(* Properties of the pages SemanticBulkSearchAPI.query collects             *)

RECURSIVE FetchedRecords(_)
\* the number of records on the pages fetched, after the filter of query_once
FetchedRecords(responses) ==
    IF responses = <<>> THEN 0
    ELSE responses[1].n + FetchedRecords(Tail(responses))

\* the records of the returned list; the {} of line 139 is not one
ReturnedRecords == SelectSeq(sem_result, LAMBDA x : x = "paper")

\* C23: when the pages fetched hold at most num_results records, the result
\* holds every one of them, those of the page without a continuation token
\* included
C23_AllFetchedReturned ==
    (sem_pc = "returned" /\ FetchedRecords(sem_responses) <= sem_num_results)
        => Len(ReturnedRecords) = FetchedRecords(sem_responses)

\* C27: query never returns more than num_results records
C27_AtMostNumResults ==
    (sem_pc = "returned") => Len(ReturnedRecords) <= sem_num_results

-----------------------------------------------------------------------------
(* Properties of the output of PaperSearchAPI.search                        *)

PositionsOf(r) == {k \in 1..Len(result) : StatedKey(result[k]) = StatedKey(r)}

PubmedResult ==
    pubmed_search_requests([i \in 1..Len(without_abstract_pmid) |-> without_abstract_pmid[i]["pmid"]],
                           pubmed_xml # <<>>, pubmed_xml)

-----------------------------------------------------------------------------
(* Properties of the PMIDs in the output of merge_and_deduplicate           *)

\* the records of the output at positions i and j carry the same non-empty PMID
SharePmid(i, j) ==
    /\ deduplicated_list[i]["pmid"] \notin {ABSENT, NONE, ""}
    /\ deduplicated_list[j]["pmid"] \notin {ABSENT, NONE, ""}
    /\ Lower(deduplicated_list[i]["pmid"]) = Lower(deduplicated_list[j]["pmid"])

\* the record of the output at position i has no DOI
Doiless(i) == deduplicated_list[i]["doi"] \in {ABSENT, NONE, ""}

\* C30 as stated: no two records of the output share the same non-empty PMID
C30_NoSharedPmid ==
    mpc = "merged" =>
        \A i, j \in 1..Len(deduplicated_list) : SharePmid(i, j) => i = j

\* C30: no two records of the output share a deduplication key; no two
\* records without a DOI share the same non-empty PMID, compared without
\* regard to case; records that share a PMID differ in their DOI or one of
\* them has no DOI
C30_NoSharedPmidAmongDoiless ==
    mpc = "merged" =>
        \A i, j \in 1..Len(deduplicated_list) :
            i # j =>
                /\ StatedKey(deduplicated_list[i]) # StatedKey(deduplicated_list[j])
                /\ (Doiless(i) /\ Doiless(j)) => ~SharePmid(i, j)
                /\ SharePmid(i, j) =>
                      \/ Doiless(i) # Doiless(j)
                      \/ Lower(deduplicated_list[i]["doi"]) # Lower(deduplicated_list[j]["doi"])

\* two records with only a PMID, spelled p and P, became one record, and a
\* record with a DOI and the same PMID stayed a record of its own
C30_Witness ==
    /\ mpc = "merged"
    /\ Len(combined) = 3
    /\ Len(deduplicated_list) = 2
    /\ \E i, j \in 1..Len(combined) :
          /\ combined[i]["doi"] = "" /\ combined[i]["pmid"] = "p"
          /\ combined[j]["doi"] = "" /\ combined[j]["pmid"] = "P"
    /\ \E i, j \in 1..Len(deduplicated_list) :
          /\ Doiless(i) /\ ~Doiless(j) /\ SharePmid(i, j)

-----------------------------------------------------------------------------
(* Properties of SemanticRelevanceSearchTool.query                          *)

\* the source holds at least num_results records, all with abstracts, and
\* every request was answered with status 200
EnoughRecords ==
    /\ rel_total >= rel_requested
    /\ rel_without_abstract = {}
    /\ ~rel_failed

\* C28: when the source holds at least num_results records with abstracts
\* and every request succeeds, query returns exactly num_results records,
\* asking for pages of at most 100 at the offsets 0, 100, 200, ...
C28_ExactlyNumResults ==
    (rel_pc = "returned" /\ EnoughRecords) =>
        /\ Len(rel_result) = rel_requested
        /\ \A k \in 1..Len(rel_calls) :
              /\ rel_calls[k].offset = (k - 1) * 100
              /\ rel_calls[k].limit <= 100

=============================================================================
